---------------------------- MODULE Spec2Model ----------------------------
(***************************************************************************)
(* A model of the GlobaLeaks request core:                                 *)
(*   backend/globaleaks/handlers/base.py  (BaseHandler)                    *)
(*                                                                         *)
(* Three components are modelled, each with its own specification:        *)
(*   SpecValidate : validate_message / validate_jmessage / validate_type   *)
(*   SpecAuth     : decorator_authentication, basic_auth,                  *)
(*                  get_current_user, get_api_session                      *)
(*   SpecUpload   : process_file_upload                                    *)
(***************************************************************************)
EXTENDS Integers, Sequences, FiniteSets, TLC

VARIABLES
    \* ---- structural validator (validate_message) ----
    v_message,          \* the decoded request body (or the malformed marker)
    v_template,         \* the template it is validated against
    v_pc,               \* "ready" before the call, "done" after it
    v_exc,              \* exception class raised by the call, "none" if it returned
    v_msg,              \* the raise site (message of the exception)
    v_jmessage,         \* the payload object after the call (mutated in place)
    v_first             \* the payload the first, successful validation returned

validateVars == <<v_message, v_template, v_pc, v_exc, v_msg, v_jmessage, v_first>>

VARIABLES
    \* ---- state shared by the handlers (self.state, Sessions) ----
    tenant_cache,       \* self.state.tenant_cache: tid -> the tenant's settings
    sessions,           \* the session registry (Sessions): session id -> session
    api_token_session,  \* self.state.api_token_session (NoSession when None)
    \* ---- one request through decorator_authentication ----
    request,            \* self.request: tid, headers, args
    check_roles,        \* the allow-list the handler method is wrapped with
    bypass_basic_auth,  \* the handler's bypass_basic_auth attribute
    a_pc,               \* "idle", "ready" (handler constructed), "done"
    a_exc,              \* exception the wrapper raised, "none" if it returned
    a_called,           \* the wrapped handler method f was invoked
    a_resolved,         \* the current_user property was evaluated and returned
    current_user,       \* self._current_user (NoSession when None or unset)
    response_headers    \* headers set on the response with request.setHeader

stateVars == <<tenant_cache, sessions, api_token_session>>
authVars == <<request, check_roles, bypass_basic_auth, a_pc, a_exc, a_called,
              a_resolved, current_user, response_headers>>

VARIABLES
    \* ---- file uploads (process_file_upload) ----
    py3,                \* the interpreter runs Python 3 (true division of ints)
    TempUploadFiles,    \* self.state.TempUploadFiles: flow identifier -> temp file
    upload_args,        \* the arguments of the last upload request handled
    uploaded_file,      \* self.uploaded_file of the handler of that request
    u_exc,              \* exception process_file_upload raised, "none" if none
    u_limit             \* the limit the FileTooBig error carries

uploadVars == <<py3, TempUploadFiles, upload_args, uploaded_file, u_exc, u_limit>>

VARIABLES
    \* ---- FileProducer ----
    fp,                 \* the producer, its file and the response it writes to
    p_source,           \* the length of the file, in bytes
    p_block,            \* Settings.file_chunk_size
    r_gone,             \* the client has disconnected
    p_calls,            \* callbacks made so far
    p_faulted,          \* history: a call made by a callback raised
    p_stopped,          \* history: the response called stopProducing
    p_completion,       \* history: the source was exhausted or a stop requested
    p_error_seen,       \* history: a call on the response raised in a callback
    p_late_io,          \* history: a block was read or written after such an error
    p_late_response     \* history: the response was called after the deferred resolved

producerVars == <<fp, p_source, p_block, r_gone, p_calls, p_faulted, p_stopped,
                  p_completion, p_error_seen, p_late_io, p_late_response>>

VARIABLES
    \* ---- decorator_invalidate_tenant_state ----
    i_pc,               \* "idle", "pending" (f returned an unfired Deferred), "done"
    i_result,           \* the result of the wrapped operation itself, once computed
    i_delivered,        \* what the Deferred the wrapper returned holds, once fired
    i_refreshes,        \* refresh_tenant_state() calls made for this operation
    i_version,          \* refresh_tenant_state() calls made in all
    i_log               \* the results the callers received, in order

invalidateVars == <<i_pc, i_result, i_delivered, i_refreshes, i_version, i_log>>

VARIABLES
    \* ---- execution_check ----
    e_pc,                   \* "running" (the handler runs), "checked"
    e_py3,                  \* the interpreter runs Python 3
    uniform_answer_time,    \* the flag of the handler class
    side_channels_guard,    \* Settings.side_channels_guard, in milliseconds
    e_elapsed,              \* datetime.now() - request.start_time, in microseconds
    e_delay,                \* the sleep execution_check returned, in microseconds
    e_alert,                \* schedule_exception_email was called
    e_tracked               \* track_handler was called

execVars == <<e_pc, e_py3, uniform_answer_time, side_channels_guard,
              e_elapsed, e_delay, e_alert, e_tracked>>

VARIABLES
    \* ---- PGPCheckSchedule.pgp_validation_check ----
    g_pc,                   \* "ready", "done"
    receivers,              \* store.find(models.Receiver): the users of the receivers
    allow_unencrypted,      \* GLSettings.memory_copy.allow_unencrypted
    g_now,                  \* datetime_now(), in days
    g_before,               \* the receivers as the run found them
    expired_or_expiring     \* what the run returned: the receivers it lists

pgpVars == <<g_pc, receivers, allow_unencrypted, g_now, g_before, expired_or_expiring>>

restVars == <<producerVars, invalidateVars, execVars, pgpVars>>

vars == <<validateVars, stateVars, authVars, uploadVars, restVars>>

-----------------------------------------------------------------------------
(***************************************************************************)
(* JSON values and templates.  Every value is a record of one shape:       *)
(*   t : the Python type of the decoded value ("none", "int", "bool",      *)
(*       "str", "dict", "list"), or the kind of template ("type",          *)
(*       "regexp", "dict", "list")                                         *)
(*   n : the name of the python type / the pattern (templates only)        *)
(*   i : the number (ints)          b : the truth value (bools)            *)
(*   s : the characters (strings, as a sequence of one character strings)  *)
(*   c : the children: the items [k, val] of a dict in iteration order     *)
(*       (keys distinct), the elements of a list (as items with key "")    *)
(***************************************************************************)
Val(t, n, i, b, s, c) == [t |-> t, n |-> n, i |-> i, b |-> b, s |-> s, c |-> c]
Item(k, x) == [k |-> k, val |-> x]

JNone      == Val("none", "", 0, FALSE, <<>>, <<>>)
JInt(n)    == Val("int", "", n, FALSE, <<>>, <<>>)
JBool(b)   == Val("bool", "", 0, b, <<>>, <<>>)
JStr(s)    == Val("str", "", 0, FALSE, s, <<>>)
JDict(its) == Val("dict", "", 0, FALSE, <<>>, its)
JList(xs)  == Val("list", "", 0, FALSE, <<>>, [j \in 1..Len(xs) |-> Item("", xs[j])])

\* the elements of a list
Elems(value) == [j \in 1..Len(value.c) |-> value.c[j].val]

\* json.loads raised ValueError: the body is not JSON
Malformed == Val("malformed", "", 0, FALSE, <<>>, <<>>)

\* Templates.  A callable (python type), a regexp string, a dict, a list.
TType(name)  == Val("type", name, 0, FALSE, <<>>, <<>>)
TRegexp(p)   == Val("regexp", p, 0, FALSE, <<>>, <<>>)

STrue  == <<"t", "r", "u", "e">>
SFalse == <<"f", "a", "l", "s", "e">>

Digits == {"0", "1", "2", "3", "4", "5", "6", "7", "8", "9"}

IsDigits(s) == Len(s) > 0 /\ \A i \in 1..Len(s) : s[i] \in Digits

\* Python truthiness of a decoded value ("if not value")
Truthy(value) ==
    CASE value.t = "none" -> FALSE
      [] value.t = "int"  -> value.i # 0
      [] value.t = "bool" -> value.b
      [] value.t = "str"  -> Len(value.s) > 0
      [] OTHER            -> Len(value.c) > 0

\* decimal digits of a natural number, as text_type(int) prints them
RECURSIVE DecimalDigits(_)
DecimalDigits(n) ==
    LET d == <<"0", "1", "2", "3", "4", "5", "6", "7", "8", "9">>[(n % 10) + 1]
    IN  IF n < 10 THEN <<d>> ELSE DecimalDigits(n \div 10) \o <<d>>

\* text_type(value): the text the value prints as
text_type(value) ==
    CASE value.t = "str"  -> value.s
      [] value.t = "int"  -> IF value.i < 0 THEN <<"-">> \o DecimalDigits(0 - value.i)
                             ELSE DecimalDigits(value.i)
      [] value.t = "bool" -> IF value.b THEN <<"T", "r", "u", "e">>
                             ELSE <<"F", "a", "l", "s", "e">>
      [] value.t = "none" -> <<"N", "o", "n", "e">>
      [] value.t = "dict" -> <<"{", "}">>
      [] OTHER            -> <<"[", "]">>

\* int(value) does not raise
IntCoercible(value) ==
    \/ value.t \in {"int", "bool"}
    \/ value.t = "str" /\ IsDigits(value.s)

\* isinstance(value, python_type)
IsInstance(value, python_type) ==
    CASE python_type = "bool"    -> value.t = "bool"
      [] python_type = "int"     -> value.t \in {"int", "bool"}
      [] python_type = "unicode" -> value.t = "str"
      [] python_type = "dict"    -> value.t = "dict"
      [] python_type = "list"    -> value.t = "list"
      [] OTHER                   -> FALSE

\* validate_python_type without the special case of the boolean strings
validate_python_type_nostrings(value, python_type) ==
    IF value.t = "none" THEN TRUE
    ELSE IF python_type = "SkipSpecificValidation" THEN TRUE
    ELSE IF python_type = "int" THEN IntCoercible(value)
    ELSE IsInstance(value, python_type)

validate_python_type(value, python_type) ==
    IF value.t = "none" THEN TRUE
    ELSE IF python_type = "SkipSpecificValidation" THEN TRUE
    ELSE IF python_type = "int" THEN IntCoercible(value)
    ELSE IF python_type = "bool" /\ value.t = "str"
            /\ (value.s = STrue \/ value.s = SFalse) THEN TRUE
    ELSE IsInstance(value, python_type)

\* The regular expressions of the templates: re.match(pattern, text)
DigitsRegexp == "^[0-9]+$"
BoolRegexp   == "^(true|false)$"

re_match(pattern, text) ==
    CASE pattern = DigitsRegexp -> IsDigits(text)
      [] pattern = BoolRegexp   -> text = STrue \/ text = SFalse
      [] OTHER                  -> FALSE

validate_regexp(value, type) == re_match(type, text_type(value))

-----------------------------------------------------------------------------
\* Results of the recursive validators: the exception raised ("none" when
\* the call returned), its raise site, the returned boolean, and the value
\* object as the call left it (nested dicts are stripped in place).
Returned(ret, val) == [exc |-> "none", msg |-> "", ret |-> ret, val |-> val]
Raised(exc, msg, val) == [exc |-> exc, msg |-> msg, ret |-> FALSE, val |-> val]

IVE == "InputValidationError"

HasKey(items, key) == \E i \in 1..Len(items) : items[i].k = key
Lookup(items, key) == items[CHOOSE i \in 1..Len(items) : items[i].k = key].val
SetKey(items, key, x) ==
    [i \in 1..Len(items) |-> IF items[i].k = key THEN Item(key, x) ELSE items[i]]

\* iter(value): what "for x in value" yields
Iterable(value) == value.t \in {"list", "dict", "str"}
Iter(value) ==
    CASE value.t = "list" -> Elems(value)
      [] value.t = "dict" -> [j \in 1..Len(value.c) |-> JStr(<<value.c[j].k>>)]
      [] value.t = "str"  -> [j \in 1..Len(value.s) |-> JStr(<<value.s[j]>>)]
      [] OTHER            -> <<>>
\* the value after its elements were visited (only list elements are objects
\* the visit can have mutated)
Rebuilt(value, elems) == IF value.t = "list" THEN JList(elems) ELSE value

\* Each call of a validator is written once and its result handed to the
\* operator that continues from it, as the code binds it to a local name.
RECURSIVE validate_type(_, _), validate_jmessage(_, _),
          AllElements(_, _), AllElementsNext(_, _, _),
          FirstPass(_, _, _), FirstPassNext(_, _, _, _),
          SecondPass(_, _, _), SecondPassNext(_, _, _, _),
          SecondPassNested(_, _, _, _)

\* all(BaseHandler.validate_type(x, type[0]) for x in elems): the elements
\* are visited in order until one fails; [exc, msg, ret, elems]
AllElements(elems, type) ==
    IF elems = <<>> THEN [exc |-> "none", msg |-> "", ret |-> TRUE, elems |-> <<>>]
    ELSE IF Len(type.c) = 0
    THEN [exc |-> "IndexError", msg |-> "type[0]", ret |-> FALSE, elems |-> elems]
    ELSE AllElementsNext(validate_type(Head(elems), type.c[1].val), elems, type)

WithElem(x, rest) == [rest EXCEPT !.elems = <<x>> \o @]

\* r is the result of validate_type on the first element
AllElementsNext(r, elems, type) ==
    IF r.exc # "none" \/ ~r.ret
    THEN [exc |-> r.exc, msg |-> r.msg, ret |-> FALSE,
          elems |-> <<r.val>> \o Tail(elems)]
    ELSE WithElem(r.val, AllElements(Tail(elems), type))

\* the result of validate_type on a value whose elements were visited
ListResult(r, value) ==
    [exc |-> r.exc, msg |-> r.msg, ret |-> r.ret, val |-> Rebuilt(value, r.elems)]

\* validate_type without the refusal of None
validate_type_none_passes(value, type) ==
    CASE type.t = "type" ->
            Returned(validate_python_type(value, type.n), value)
      [] type.t = "dict" -> validate_jmessage(value, type)
      [] type.t = "regexp" ->
            Returned(validate_regexp(value, type.n), value)
      [] type.t = "list" ->
            IF ~Truthy(value) THEN Returned(TRUE, value)
            ELSE IF ~Iterable(value)
            THEN Raised("TypeError", "not iterable", value)
            ELSE ListResult(AllElements(Iter(value), type), value)

validate_type(value, type) ==
    IF value.t = "none" THEN Returned(FALSE, value)
    ELSE CASE type.t = "type" ->
                Returned(validate_python_type(value, type.n), value)
           [] type.t = "dict" -> validate_jmessage(value, type)
           [] type.t = "regexp" ->
                Returned(validate_regexp(value, type.n), value)
           [] type.t = "list" ->
                IF ~Truthy(value) THEN Returned(TRUE, value)
                ELSE IF ~Iterable(value)
                THEN Raised("TypeError", "not iterable", value)
                ELSE ListResult(AllElements(Iter(value), type), value)

WithItem(it, rest) == [rest EXCEPT !.items = <<it>> \o @]

\* the first loop counting the keys it strips as successes too
FirstPass_counts_stripped(items, template, cnt) ==
    IF items = <<>> THEN [exc |-> "none", msg |-> "", items |-> <<>>, cnt |-> cnt]
    ELSE IF ~HasKey(template.c, Head(items).k)
    THEN WithItem(Head(items), FirstPass(Tail(items), template, cnt + 1))
    ELSE FirstPassNext(validate_type(Head(items).val,
                                     Lookup(template.c, Head(items).k)),
                       items, template, cnt)

\* first loop of validate_jmessage: "for key, value in jmessage.items()";
\* cnt is success_check; [exc, msg, items, cnt], the items carrying the
\* nested mutations
FirstPass(items, template, cnt) ==
    IF items = <<>> THEN [exc |-> "none", msg |-> "", items |-> <<>>, cnt |-> cnt]
    ELSE IF ~HasKey(template.c, Head(items).k)
    THEN WithItem(Head(items), FirstPass(Tail(items), template, cnt))
    ELSE FirstPassNext(validate_type(Head(items).val,
                                     Lookup(template.c, Head(items).k)),
                       items, template, cnt)

\* r is the result of validate_type on the value of the first item
FirstPassNext(r, items, template, cnt) ==
    IF r.exc # "none"
    THEN [exc |-> r.exc, msg |-> r.msg,
          items |-> <<Item(Head(items).k, r.val)>> \o Tail(items), cnt |-> cnt]
    ELSE IF ~r.ret
    THEN [exc |-> IVE, msg |-> "type validation failure",
          items |-> <<Item(Head(items).k, r.val)>> \o Tail(items), cnt |-> cnt]
    ELSE WithItem(Item(Head(items).k, r.val),
                  FirstPass(Tail(items), template, cnt + 1))

\* second loop: "for key, value in message_template.items()"
SecondPass(titems, items, cnt) ==
    IF titems = <<>> THEN [exc |-> "none", msg |-> "", items |-> items, cnt |-> cnt]
    ELSE IF ~HasKey(items, Head(titems).k)
    THEN [exc |-> IVE, msg |-> "Missing key", items |-> items, cnt |-> cnt]
    ELSE SecondPassNext(validate_type(Lookup(items, Head(titems).k),
                                      Head(titems).val),
                        titems, items, cnt)

\* r is the result of validate_type on jmessage[key]
SecondPassNext(r, titems, items, cnt) ==
    LET key   == Head(titems).k
        value == Head(titems).val
    IN  IF r.exc # "none"
        THEN [exc |-> r.exc, msg |-> r.msg,
              items |-> SetKey(items, key, r.val), cnt |-> cnt]
        ELSE IF ~r.ret
        THEN [exc |-> IVE, msg |-> "double validation failure",
              items |-> SetKey(items, key, r.val), cnt |-> cnt]
        ELSE IF value.t \in {"dict", "list"} /\ Len(value.c) > 0
        THEN SecondPassNested(validate_jmessage(r.val, value), titems, items, cnt)
        ELSE SecondPass(Tail(titems), SetKey(items, key, r.val), cnt + 1)

\* r2 is the result of validate_jmessage(jmessage[key], message_template[key])
SecondPassNested(r2, titems, items, cnt) ==
    IF r2.exc # "none"
    THEN [exc |-> r2.exc, msg |-> r2.msg,
          items |-> SetKey(items, Head(titems).k, r2.val), cnt |-> cnt]
    ELSE SecondPass(Tail(titems), SetKey(items, Head(titems).k, r2.val), cnt + 1)

\* the stripping with only the first of keys_to_strip deleted
Strip_first_only(items, message_template) ==
    LET extra == {j \in 1..Len(items) : ~HasKey(message_template.c, items[j].k)}
        first == CHOOSE j \in extra : \A h \in extra : j <= h
    IN  IF extra = {} THEN items
        ELSE [j \in 1..(Len(items) - 1) |->
                 IF j < first THEN items[j] ELSE items[j + 1]]

\* "for key in keys_to_strip: del jmessage[key]"
Strip(items, message_template) ==
    LET Kept(it) == HasKey(message_template.c, it.k)
    IN  SelectSeq(items, Kept)

\* the double check of success_check and the return, after the second loop
AfterSecondPass(p2, message_template) ==
    IF p2.exc # "none" THEN Raised(p2.exc, p2.msg, JDict(p2.items))
    ELSE IF p2.cnt # Len(message_template.c) * 2
    THEN Raised(IVE, "Success counter double check failure", JDict(p2.items))
    ELSE Returned(TRUE, JDict(p2.items))

\* success_check where control reaches "if success_check != ...", -1 where
\* an exception left validate_jmessage before
CountAfterSecondPass(p2) == IF p2.exc # "none" THEN 0 - 1 ELSE p2.cnt

CountAfterFirstPass(p1, message_template) ==
    IF p1.exc # "none" THEN 0 - 1
    ELSE CountAfterSecondPass(SecondPass(message_template.c,
                                         Strip(p1.items, message_template), p1.cnt))

success_check(jmessage, message_template) ==
    IF message_template.t = "dict" /\ jmessage.t = "dict"
    THEN CountAfterFirstPass(FirstPass(jmessage.c, message_template, 0),
                             message_template)
    ELSE 0 - 1

\* the stripping and the second loop, after the first loop
AfterFirstPass(p1, message_template) ==
    IF p1.exc # "none" THEN Raised(p1.exc, p1.msg, JDict(p1.items))
    ELSE AfterSecondPass(SecondPass(message_template.c,
                                    Strip(p1.items, message_template), p1.cnt),
                         message_template)

\* validate_jmessage with a list template, after all(...)
AfterAllElements(r, jmessage) ==
    IF r.exc # "none" THEN Raised(r.exc, r.msg, Rebuilt(jmessage, r.elems))
    ELSE IF ~r.ret THEN Raised(IVE, "Not every element", Rebuilt(jmessage, r.elems))
    ELSE Returned(TRUE, Rebuilt(jmessage, r.elems))

validate_jmessage(jmessage, message_template) ==
    IF message_template.t = "dict"
    THEN IF jmessage.t # "dict"
         THEN Raised("AttributeError", "items", jmessage)
         ELSE AfterFirstPass(FirstPass(jmessage.c, message_template, 0),
                             message_template)
    ELSE IF message_template.t = "list"
    THEN IF ~Iterable(jmessage)
         THEN Raised("TypeError", "not iterable", jmessage)
         ELSE AfterAllElements(AllElements(Iter(jmessage), message_template), jmessage)
    ELSE Raised(IVE, "expected dict or list", jmessage)

\* "if BaseHandler.validate_jmessage(...): return jmessage"
AfterValidate(r) ==
    IF r.exc # "none" THEN r
    ELSE IF r.ret THEN r
    ELSE Raised(IVE, "Unexpected condition!?", r.val)

\* validate_message: json.loads, then validate_jmessage; returns jmessage
validate_message(msg, template) ==
    IF msg.t = "malformed" THEN Raised(IVE, "Invalid JSON format", msg)
    ELSE AfterValidate(validate_jmessage(msg, template))

-----------------------------------------------------------------------------
(***************************************************************************)
(* Identity resolution and the authentication decorator.                   *)
(*                                                                         *)
(* A session is [id, tid, user_role]; NoSession stands for None.           *)
(* A header or argument is [present, ...]: a byte string the client sent.  *)
(* Text is a sequence of one character strings.                            *)
(***************************************************************************)
Session(id, tid, role) == [id |-> id, tid |-> tid, user_role |-> role]
NoSession == Session("", 0, "")

api_token_len == 2     \* Settings.api_token_len, the fixed length of an API token

\* sha512(token): the digest of a token (distinct tokens, distinct digests)
sha512(token) == <<"sha512">> \o token

\* constant_time.bytes_eq(a, b)
bytes_eq(a, b) == a = b

\* the token the client supplied: the api-token argument, else the
\* x-api-token header, else ''
SuppliedToken(req) ==
    IF req.arg_api_token.present THEN req.arg_api_token.value
    ELSE IF req.hdr_api_token.present THEN req.hdr_api_token.value
    ELSE <<>>

\* get_api_session without the test of the request's tenant
get_api_session_anytenant(req) ==
    LET token == SuppliedToken(req)
    IN  IF \/ Len(token) # api_token_len
           \/ api_token_session = NoSession
           \/ tenant_cache[req.tid].admin_api_token_digest = <<>>
        THEN NoSession
        ELSE IF bytes_eq(sha512(token), tenant_cache[req.tid].admin_api_token_digest)
        THEN api_token_session
        ELSE NoSession

get_api_session(req) ==
    LET token == SuppliedToken(req)
    IN  IF \/ req.tid # 1
           \/ Len(token) # api_token_len
           \/ api_token_session = NoSession
           \/ tenant_cache[req.tid].admin_api_token_digest = <<>>
        THEN NoSession
        ELSE IF bytes_eq(sha512(token), tenant_cache[req.tid].admin_api_token_digest)
        THEN api_token_session
        ELSE NoSession

\* Sessions.get(session_id)
SessionsGet(session_id) ==
    IF session_id \in DOMAIN sessions THEN sessions[session_id] ELSE NoSession

\* the session-header channel without the test of the session's tenant
session_header_channel_anytenant(req) ==
    IF ~req.x_session.present THEN [exc |-> "none", user |-> NoSession]
    ELSE IF ~req.x_session.utf8
    THEN [exc |-> "UnicodeDecodeError", user |-> NoSession]
    ELSE [exc |-> "none", user |-> SessionsGet(req.x_session.value)]

\* the session-header channel of get_current_user: [exc, user]
session_header_channel(req) ==
    IF ~req.x_session.present THEN [exc |-> "none", user |-> NoSession]
    ELSE IF ~req.x_session.utf8
    THEN [exc |-> "UnicodeDecodeError", user |-> NoSession]
    ELSE LET session == SessionsGet(req.x_session.value)
         IN  IF session # NoSession /\ session.tid = req.tid
             THEN [exc |-> "none", user |-> session]
             ELSE [exc |-> "none", user |-> NoSession]

get_current_user(req) ==
    LET api_session == get_api_session(req)
    IN  IF api_session # NoSession THEN [exc |-> "none", user |-> api_session]
        ELSE session_header_channel(req)

\* the text before and after the first ":" of a text that holds one
RECURSIVE FirstColon(_, _)
FirstColon(text, j) ==
    IF j > Len(text) THEN 0
    ELSE IF text[j] = ":" THEN j ELSE FirstColon(text, j + 1)

\* basic_auth(): [exc, headers], the exception raised ("none" if it
\* returned) and the headers it set on the response
WWWAuthenticate == "WWW-Authenticate"

basic_auth(req) ==
    LET hdr    == req.authorization
        failed == [exc |-> "HTTPAuthenticationRequired", headers |-> {WWWAuthenticate}]
        raise(e) == [exc |-> e, headers |-> {}]
    IN  IF ~hdr.present THEN failed
        ELSE IF Len(hdr.tokens) # 2 THEN raise("ValueError")
        ELSE LET auth_type == hdr.tokens[1]
                 data      == hdr.tokens[2]
             IN  IF ~data.b64 THEN raise("binascii.Error")
                 ELSE IF ~data.utf8 THEN raise("UnicodeDecodeError")
                 ELSE LET c == FirstColon(data.text, 1)
                      IN  IF c = 0 THEN raise("ValueError")
                          ELSE LET usr == SubSeq(data.text, 1, c - 1)
                                   pwd == SubSeq(data.text, c + 1, Len(data.text))
                               IN  IF \/ auth_type.raw # "Basic"
                                      \/ usr # tenant_cache[req.tid].basic_auth_username
                                      \/ pwd # tenant_cache[req.tid].basic_auth_password
                                   THEN failed
                                   ELSE raise("none")

\* the outcome of the wrapper of decorator_authentication(f, roles):
\* the exception raised ("none" if f returned), whether f was called, whether
\* self.current_user was evaluated and what it gave, the response headers set
Outcome(exc, called, resolved, user, headers) ==
    [exc |-> exc, called |-> called, resolved |-> resolved,
     user |-> user, headers |-> headers]

\* "if ...basic_auth and not self.bypass_basic_auth: self.basic_auth()"
basic_auth_gate(req, bypass) ==
    IF tenant_cache[req.tid].basic_auth /\ ~bypass
    THEN basic_auth(req) ELSE [exc |-> "none", headers |-> {}]

\* the 'unauthenticated' branch with the handler called whoever asks
unauthenticated_branch_open(cu) ==
    IF cu.exc # "none" THEN Outcome(cu.exc, FALSE, FALSE, NoSession, {})
    ELSE Outcome("none", TRUE, TRUE, cu.user, {})

\* "if 'unauthenticated' in roles:", cu being self.current_user
unauthenticated_branch(cu) ==
    IF cu.exc # "none" THEN Outcome(cu.exc, FALSE, FALSE, NoSession, {})
    ELSE IF cu.user # NoSession
    THEN Outcome("InvalidAuthentication", FALSE, TRUE, cu.user, {})
    ELSE Outcome("none", TRUE, TRUE, cu.user, {})

\* the role branch with the handler called for every identity
role_branch_anyrole(cu, roles) ==
    IF cu.exc # "none" THEN Outcome(cu.exc, FALSE, FALSE, NoSession, {})
    ELSE IF cu.user = NoSession
    THEN Outcome("NotAuthenticated", FALSE, TRUE, cu.user, {})
    ELSE Outcome("none", TRUE, TRUE, cu.user, {})

\* "if not self.current_user: ... raise errors.InvalidAuthentication"
role_branch(cu, roles) ==
    IF cu.exc # "none" THEN Outcome(cu.exc, FALSE, FALSE, NoSession, {})
    ELSE IF cu.user = NoSession
    THEN Outcome("NotAuthenticated", FALSE, TRUE, cu.user, {})
    ELSE IF cu.user.user_role \in roles
    THEN Outcome("none", TRUE, TRUE, cu.user, {})
    ELSE Outcome("InvalidAuthentication", FALSE, TRUE, cu.user, {})

\* the wrapper with 'unauthenticated' looked for before '*'
wrapper_unauthenticated_first(req, roles, bypass) ==
    IF basic_auth_gate(req, bypass).exc # "none"
    THEN Outcome(basic_auth_gate(req, bypass).exc, FALSE, FALSE, NoSession,
                 basic_auth_gate(req, bypass).headers)
    ELSE IF "unauthenticated" \in roles
    THEN unauthenticated_branch(get_current_user(req))
    ELSE IF "*" \in roles THEN Outcome("none", TRUE, FALSE, NoSession, {})
    ELSE role_branch(get_current_user(req), roles)

\* the wrapper of decorator_authentication(f, roles)
wrapper(req, roles, bypass) ==
    IF basic_auth_gate(req, bypass).exc # "none"
    THEN Outcome(basic_auth_gate(req, bypass).exc, FALSE, FALSE, NoSession,
                 basic_auth_gate(req, bypass).headers)
    ELSE IF "*" \in roles THEN Outcome("none", TRUE, FALSE, NoSession, {})
    ELSE IF "unauthenticated" \in roles
    THEN unauthenticated_branch(get_current_user(req))
    ELSE role_branch(get_current_user(req), roles)

-----------------------------------------------------------------------------
(***************************************************************************)
(* File uploads.  A temporary file is [created, size, finalized, chunks,   *)
(* tids]: the bytes written to it, whether finalize_write() was called,    *)
(* and (history) how many chunks were written and by requests of which     *)
(* tenants.  NoFile stands for a flow identifier not in the registry.      *)
(***************************************************************************)
MB == 1024 * 1024

NoFile == [created |-> FALSE, size |-> 0, finalized |-> FALSE, chunks |-> 0, tids |-> {}]

\* SecureTemporaryFile(Settings.tmp_path)
SecureTemporaryFile ==
    [created |-> TRUE, size |-> 0, finalized |-> FALSE, chunks |-> 0, tids |-> {}]

\* f.write(data) within "with f.open('w')": a finalized file takes no write
CanWrite(f) == ~f.finalized
Write(f, nbytes, tid) ==
    [f EXCEPT !.size = @ + nbytes, !.chunks = @ + 1, !.tids = @ \cup {tid}]
\* f.finalize_write()
FinalizeWrite(f) == [f EXCEPT !.finalized = TRUE]

NoUpload == [set |-> FALSE, size |-> 0, body |-> ""]

\* (nbytes / (1024 * 1024)) > maximum_filesize, as the interpreter divides
TooBig(nbytes, maximum_filesize) ==
    IF py3 THEN nbytes > maximum_filesize * MB
    ELSE (nbytes \div MB) > maximum_filesize

\* the size test with the declared total size left out
size_rejected_chunk_only(args) ==
    TooBig(args.chunk_size, tenant_cache[args.tid].maximum_filesize)

\* "if ((chunk_size / (1024 * 1024)) > ...maximum_filesize or
\*      (total_file_size / (1024 * 1024)) > ...maximum_filesize)"
size_rejected(args) ==
    \/ TooBig(args.chunk_size, tenant_cache[args.tid].maximum_filesize)
    \/ TooBig(args.flowTotalSize, tenant_cache[args.tid].maximum_filesize)

\* "if flow_identifier not in self.state.TempUploadFiles: ...set(...)"
registered(files, id) ==
    IF files[id].created THEN files ELSE [files EXCEPT ![id] = SecureTemporaryFile]

\* the test for the last chunk passing on every chunk
last_chunk_every(args) == args.flowChunkNumber <= args.flowTotalChunks

\* "if self.request.args[b'flowChunkNumber'][0] ==
\*      self.request.args[b'flowTotalChunks'][0]"
last_chunk(args) == args.flowChunkNumber = args.flowTotalChunks

\* process_file_upload on a request with arguments args:
\* [exc, limit, files, uploaded_file]
process_file_upload(args) ==
    LET out(exc, limit, files, up) ==
            [exc |-> exc, limit |-> limit, files |-> files, uploaded_file |-> up]
        id == args.flowIdentifier
        f  == registered(TempUploadFiles, id)[id]
        f1 == Write(f, args.chunk_size, args.tid)
        f2 == IF last_chunk(args) THEN FinalizeWrite(f1) ELSE f1
    IN  IF ~args.flowFilename THEN out("none", 0, TempUploadFiles, NoUpload)
        ELSE IF size_rejected(args)
        THEN out("FileTooBig", tenant_cache[args.tid].maximum_filesize,
                 TempUploadFiles, NoUpload)
        ELSE IF ~CanWrite(f)
        THEN out("WriteAfterFinalize", 0, registered(TempUploadFiles, id), NoUpload)
        ELSE out("none", 0, [TempUploadFiles EXCEPT ![id] = f2],
                 [set |-> TRUE, size |-> args.flowTotalSize, body |-> id])

-----------------------------------------------------------------------------
(***************************************************************************)
(* FileProducer.  The producer, its file and its response are one record:  *)
(*   request          : self.request is not None                           *)
(*   pos, reads       : the position of self.fd, the fd.read calls made    *)
(*   write_calls      : the request.write calls issued                     *)
(*   writes           : the blocks <<offset, length>> the response took    *)
(*   registered       : the producer is registered with the response       *)
(*   unregister_calls, finish_calls : the calls issued on the response     *)
(*   finished         : request.finish() succeeded                         *)
(*   resolved         : how often self.finish.callback(None) was called    *)
(*   ret              : how the last callback left ("returned", "raised")  *)
(* A callback is given the call that raises in it (fault), "none" if none. *)
(***************************************************************************)
\* FileProducer(request, fd).start()
Started ==
    [request |-> TRUE, pos |-> 0, reads |-> 0, write_calls |-> 0, writes |-> <<>>,
     registered |-> TRUE, unregister_calls |-> 0, finish_calls |-> 0,
     finished |-> FALSE, resolved |-> 0, ret |-> "none"]

\* len(self.fd.read(Settings.file_chunk_size)) with the file at pos
fd_read(pos) == IF p_source - pos < p_block THEN p_source - pos ELSE p_block

\* stopProducing that lets an exception of the response leave
stopProducing_propagates(st, fault) ==
    IF ~st.request THEN [st EXCEPT !.ret = "returned"]
    ELSE IF fault = "unregister"
    THEN [st EXCEPT !.unregister_calls = @ + 1, !.ret = "raised"]
    ELSE IF fault = "finish"
    THEN [st EXCEPT !.unregister_calls = @ + 1, !.registered = FALSE,
                    !.finish_calls = @ + 1, !.ret = "raised"]
    ELSE [st EXCEPT !.unregister_calls = @ + 1, !.registered = FALSE,
                    !.finish_calls = @ + 1, !.finished = TRUE,
                    !.request = FALSE, !.resolved = @ + 1, !.ret = "returned"]

\* FileProducer.stopProducing
stopProducing(st, fault) ==
    IF ~st.request THEN [st EXCEPT !.ret = "returned"]
    ELSE IF fault = "unregister"
    THEN [st EXCEPT !.unregister_calls = @ + 1, !.ret = "returned"]
    ELSE IF fault = "finish"
    THEN [st EXCEPT !.unregister_calls = @ + 1, !.registered = FALSE,
                    !.finish_calls = @ + 1, !.ret = "returned"]
    ELSE [st EXCEPT !.unregister_calls = @ + 1, !.registered = FALSE,
                    !.finish_calls = @ + 1, !.finished = TRUE,
                    !.request = FALSE, !.resolved = @ + 1, !.ret = "returned"]

\* "if data: self.request.write(data)", data being the n bytes read at st.pos
write_data(st, n, fault) ==
    IF fault = "write"
    THEN [st EXCEPT !.reads = @ + 1, !.pos = @ + n, !.write_calls = @ + 1,
                    !.ret = "returned"]
    ELSE [st EXCEPT !.reads = @ + 1, !.pos = @ + n, !.write_calls = @ + 1,
                    !.writes = Append(@, <<st.pos, n>>), !.ret = "returned"]

\* resumeProducing that stops once the file has no full block left
resumeProducing_full_blocks(st, fault) ==
    IF ~st.request THEN [st EXCEPT !.ret = "returned"]
    ELSE IF fault = "read" THEN [st EXCEPT !.reads = @ + 1, !.ret = "returned"]
    ELSE IF fd_read(st.pos) = p_block THEN write_data(st, fd_read(st.pos), fault)
    ELSE stopProducing([st EXCEPT !.reads = @ + 1], fault)

\* FileProducer.resumeProducing
resumeProducing(st, fault) ==
    IF ~st.request THEN [st EXCEPT !.ret = "returned"]
    ELSE IF fault = "read" THEN [st EXCEPT !.reads = @ + 1, !.ret = "returned"]
    ELSE IF fd_read(st.pos) > 0 THEN write_data(st, fd_read(st.pos), fault)
    ELSE stopProducing([st EXCEPT !.reads = @ + 1], fault)

\* the calls that can raise in a callback: the read of the file at any time,
\* a call on the response once the client is gone
TransportFaults == {"write", "unregister", "finish"}
StopFaults(st) ==
    {"none"} \cup (IF st.request /\ r_gone THEN {"unregister", "finish"} ELSE {})
ResumeFaults(st) ==
    IF ~st.request THEN {"none"}
    ELSE {"none", "read"} \cup
         (IF fd_read(st.pos) > 0
          THEN (IF r_gone THEN {"write"} ELSE {})
          ELSE StopFaults(st) \ {"none"})

-----------------------------------------------------------------------------
(***************************************************************************)
(* decorator_invalidate_tenant_state.  The outcome of an operation, and    *)
(* what a Deferred holds, is [fired, ok, value]: a result (ok) or a        *)
(* failure, NoOutcome while there is none.                                 *)
(***************************************************************************)
NoOutcome == [fired |-> FALSE, ok |-> FALSE, value |-> ""]
Success(v) == [fired |-> TRUE, ok |-> TRUE, value |-> v]
Failure(e) == [fired |-> TRUE, ok |-> FALSE, value |-> e]

\* what the wrapped operations return or fail with
Outcomes == {Success("data1"), Success("data2"),
             Failure("error1"), Failure("error2")}

\* self.state.refresh_tenant_state(): one refresh of the tenant-wide cached
\* state is triggered, and the call returns
refresh_tenant_state == 1

\* "def callback(data): self.state.refresh_tenant_state(); return data":
\* [refreshes, result]
callback(data) == [refreshes |-> refresh_tenant_state, result |-> data]

\* the Deferred chain with the callback added for failures too
fire_both(outcome) ==
    [refreshes |-> callback(outcome).refreshes, result |-> callback(outcome).result]

\* "d.addCallback(callback)" on a Deferred that fires with outcome: the
\* callback runs on a result, a failure passes it by
fire(outcome) ==
    IF outcome.ok
    THEN [refreshes |-> callback(outcome).refreshes, result |-> callback(outcome).result]
    ELSE [refreshes |-> 0, result |-> outcome]

-----------------------------------------------------------------------------
(***************************************************************************)
(* execution_check.  Times are in microseconds, the unit of timedelta.     *)
(***************************************************************************)
\* "handler_exec_time_threshold = 120"
handler_exec_time_threshold == 120

\* datetime.now() - self.request.start_time: a timedelta holds the whole
\* seconds (of the day) and the microseconds past them apart
timedelta(us) ==
    [seconds |-> (us \div 1000000) % 86400, microseconds |-> us % 1000000]

\* "(Settings.side_channels_guard - (execution_time.microseconds / 1000)) / 1000",
\* seconds, given here in microseconds: "/" is the true division of Python 3
\* or the floor division of Python 2 on integers
needed_delay(guard, execution_time, p3) ==
    IF p3 THEN guard * 1000 - execution_time.microseconds
    ELSE ((guard - (execution_time.microseconds \div 1000)) \div 1000) * 1000000

\* execution_check with elapsed microseconds on the clock: [alert, tracked, delay];
\* delay is the deferred_sleep returned, 0 when None is returned
execution_check(flag, guard, elapsed, p3) ==
    [alert   |-> timedelta(elapsed).seconds > handler_exec_time_threshold,
     tracked |-> TRUE,
     delay   |-> IF flag /\ needed_delay(guard, timedelta(elapsed), p3) > 0
                 THEN needed_delay(guard, timedelta(elapsed), p3)
                 ELSE 0]

-----------------------------------------------------------------------------
(***************************************************************************)
(* PGPCheckSchedule.pgp_validation_check.  Dates are days after the epoch; *)
(* a receiver is the record of its user's PGP fields.                      *)
(***************************************************************************)
\* datetime_null(): the epoch, the date of a key without expiration
datetime_null == 0

\* timedelta(days=15)
days_15 == 15

\* a receiver without a key
NoKey == [pgp_key_public |-> FALSE, pgp_key_expiration |-> datetime_null,
          pgp_key_status |-> "disabled"]

\* the body of the loop with the downgrade made whatever the node accepts
check_receiver_any_node(user, now, allow) ==
    IF user.pgp_key_public /\ user.pgp_key_expiration # datetime_null
    THEN IF user.pgp_key_expiration < now
         THEN [listed |-> TRUE, user |-> [user EXCEPT !.pgp_key_status = "disabled"]]
         ELSE IF user.pgp_key_expiration < now - days_15
         THEN [listed |-> TRUE, user |-> user]
         ELSE [listed |-> FALSE, user |-> user]
    ELSE [listed |-> FALSE, user |-> user]

\* the body of "for rcvr in rcvrs": [listed, user], whether the receiver is
\* appended to expired_or_expiring and its user afterwards
check_receiver(user, now, allow) ==
    IF user.pgp_key_public /\ user.pgp_key_expiration # datetime_null
    THEN IF user.pgp_key_expiration < now
         THEN [listed |-> TRUE,
               user |-> IF allow THEN [user EXCEPT !.pgp_key_status = "disabled"]
                        ELSE user]
         ELSE IF user.pgp_key_expiration < now - days_15
         THEN [listed |-> TRUE, user |-> user]
         ELSE [listed |-> FALSE, user |-> user]
    ELSE [listed |-> FALSE, user |-> user]

\* pgp_validation_check on the store rcvrs: [receivers, expired_or_expiring],
\* the store the transaction commits and the receivers listed, in store order
pgp_validation_check(rcvrs, now, allow) ==
    LET Listed(i) == check_receiver(rcvrs[i], now, allow).listed
    IN  [receivers |-> [i \in DOMAIN rcvrs |-> check_receiver(rcvrs[i], now, allow).user],
         expired_or_expiring |-> SelectSeq([i \in DOMAIN rcvrs |-> i], Listed)]

-----------------------------------------------------------------------------
(***************************************************************************)
(* The inputs of the validator: templates and decoded bodies.              *)
(***************************************************************************)
MaxListLen == 1      \* longest list in a request body

\* the item sequences (dicts, in every iteration order) with distinct keys
\* from keys, values from vals, and at most n items
RECURSIVE ItemSeqs(_, _, _)
ItemSeqs(keys, vals, n) ==
    IF n = 0 \/ keys = {} THEN {<<>>}
    ELSE {<<>>} \cup
         UNION {{<<Item(k, x)>> \o rest :
                    x \in vals, rest \in ItemSeqs(keys \ {k}, vals, n - 1)} :
                k \in keys}

\* the sequences over vals of length at most n
RECURSIVE SeqsUpTo(_, _)
SeqsUpTo(vals, n) ==
    IF n = 0 THEN {<<>>}
    ELSE SeqsUpTo(vals, n - 1) \cup
         {<<x>> \o rest : x \in vals, rest \in {q \in SeqsUpTo(vals, n - 1) : Len(q) = n - 1}}

TemplateKeys == {"a", "b"}
ExtraKeys    == {"x"}

\* templates of one field
TAtoms == {TType("int"), TType("bool"), TType("unicode"),
           TType("SkipSpecificValidation"), TRegexp(DigitsRegexp)}
TInner == {TType("int"), TType("bool")}
TDicts == {JDict(s) : s \in ItemSeqs({"a"}, TInner, 1)}
TLists == {JList(<<>>)} \cup {JList(<<t>>) : t \in TInner \cup TDicts}
TFields == TAtoms \cup TDicts \cup TLists

\* values of one field
PAtoms == {JNone, JInt(0), JInt(1), JBool(TRUE), JBool(FALSE),
           JStr(STrue), JStr(SFalse), JStr(<<"T", "r", "u", "e">>),
           JStr(<<"1">>), JStr(<<>>)}
PInner == {JNone, JInt(1), JStr(STrue)}
PDicts == {JDict(s) : s \in ItemSeqs({"a"} \cup ExtraKeys, PInner, 2)}
PElems == PInner \cup {JDict(<<>>), JDict(<<Item("a", JInt(1))>>),
                       JDict(<<Item("a", JInt(1)), Item("x", JInt(1))>>)}
PLists == {JList(q) : q \in SeqsUpTo(PElems, MaxListLen)}
PFields == PAtoms \cup PDicts \cup PLists

\* one template key, every kind of field template, every kind of value
\* (the value of a key that is not in the template is never looked at)
OneKeyBodies ==
    {p \in ItemSeqs({"a"} \cup ExtraKeys, PFields, 2) :
        \A j \in 1..Len(p) : p[j].k \in ExtraKeys => p[j].val \in PInner}
OneKeyInputs ==
    {<<JDict(p), JDict(<<Item("a", t)>>)>> : p \in OneKeyBodies, t \in TFields}

\* several template keys: the order of the items, missing and extra keys
TSmall == {TType("int"), TType("bool"), JDict(<<Item("a", TType("int"))>>)}
PSmall == {JNone, JInt(1), JStr(STrue),
           JDict(<<Item("a", JInt(1)), Item("x", JInt(1))>>)}
ManyKeyInputs ==
    {<<JDict(p), JDict(t)>> :
        p \in ItemSeqs(TemplateKeys \cup ExtraKeys, PSmall, 3),
        t \in ItemSeqs(TemplateKeys, TSmall, 2)}

\* bodies that are not a JSON object, templates that are not a mapping
TopInputs ==
    {<<p, t>> : p \in PFields \cup {Malformed},
                t \in TFields \cup {JDict(<<Item("a", f)>>) : f \in TInner}}

\* bodies with several keys that are not in the template
MoreExtraKeys == {"y"}
ExtraKeyInputs ==
    {<<JDict(p), JDict(<<Item("a", TType("int"))>>)>> :
        p \in ItemSeqs({"a"} \cup ExtraKeys \cup MoreExtraKeys, {JInt(1)}, 3)}

ValidateInputs == OneKeyInputs \cup ManyKeyInputs \cup TopInputs \cup ExtraKeyInputs

-----------------------------------------------------------------------------
(***************************************************************************)
(* Tenants, sessions, requests                                             *)
(***************************************************************************)
TIDs == {1, 2}

TenantConfig(ba, digest, maxsize) ==
    [basic_auth |-> ba,
     basic_auth_username |-> <<"u">>,
     basic_auth_password |-> <<"p">>,
     admin_api_token_digest |-> digest,
     maximum_filesize |-> maxsize]

GoodToken  == [j \in 1..api_token_len |-> "a"]
WrongToken == [j \in 1..api_token_len |-> "b"]
ShortToken == [j \in 1..(api_token_len - 1) |-> "a"]
LongToken  == [j \in 1..(api_token_len + 1) |-> "a"]

ApiSession == Session("api", 1, "admin")

SessionIds == {"s1", "s2"}

\* tenant t accepts files of t MB; no basic auth, no API token
DefaultTenantCache == [t \in TIDs |-> TenantConfig(FALSE, <<>>, t)]
DefaultSessions == [id \in SessionIds |-> NoSession]

\* a header or argument holding a token
Absent == [present |-> FALSE, utf8 |-> TRUE, value |-> <<>>]
Sent(value) == [present |-> TRUE, utf8 |-> TRUE, value |-> value]

\* the x-session header: a session id, or bytes that are not UTF-8
NoXSession == [present |-> FALSE, utf8 |-> TRUE, value |-> ""]
XSessions ==
    {NoXSession, [present |-> TRUE, utf8 |-> FALSE, value |-> ""]} \cup
    {[present |-> TRUE, utf8 |-> TRUE, value |-> id] : id \in SessionIds \cup {"s9"}}

\* the authorization header: the whitespace separated tokens of its value.
\* A token is its bytes (raw) and what base64.b64decode and the UTF-8
\* decoding make of it (b64, utf8, text).
Word(raw) == [raw |-> raw, b64 |-> FALSE, utf8 |-> FALSE, text |-> <<>>]
B64(text) == [raw |-> "b64", b64 |-> TRUE, utf8 |-> TRUE, text |-> text]
B64Binary == [raw |-> "b64", b64 |-> TRUE, utf8 |-> FALSE, text |-> <<>>]
NoAuthorization == [present |-> FALSE, tokens |-> <<>>]
Authorization(tokens) == [present |-> TRUE, tokens |-> tokens]
AuthorizationHeaders ==
    {NoAuthorization,
     Authorization(<<>>),
     Authorization(<<Word("Basic")>>),
     Authorization(<<Word("Basic"), B64(<<"u", ":", "p">>)>>),
     Authorization(<<Word("Bearer"), B64(<<"u", ":", "p">>)>>),
     Authorization(<<Word("Basic"), B64(<<"x", ":", "p">>)>>),
     Authorization(<<Word("Basic"), B64(<<"u", ":", "x">>)>>),
     Authorization(<<Word("Basic"), B64(<<"u", "p">>)>>),
     Authorization(<<Word("Basic"), Word("%%%")>>),
     Authorization(<<Word("Basic"), B64Binary>>)}

AllowLists == {{"*"}, {"admin"}, {"admin", "receiver"}, {"unauthenticated"},
               {"unauthenticated", "admin"}, {"*", "unauthenticated"}}

NoRequest ==
    [tid |-> 1, authorization |-> NoAuthorization, x_session |-> NoXSession,
     arg_api_token |-> Absent, hdr_api_token |-> Absent]

\* the api-token argument and the x-api-token header of a request
TokenChannels ==
    {<<Absent, Absent>>, <<Sent(GoodToken), Absent>>, <<Sent(WrongToken), Absent>>,
     <<Sent(ShortToken), Absent>>, <<Absent, Sent(GoodToken)>>,
     <<Absent, Sent(LongToken)>>, <<Sent(WrongToken), Sent(GoodToken)>>}

Requests ==
    {[tid |-> t, authorization |-> a, x_session |-> x,
      arg_api_token |-> tk[1], hdr_api_token |-> tk[2]] :
        t \in TIDs, a \in AuthorizationHeaders, x \in XSessions, tk \in TokenChannels}

\* upload requests: the flow.js fields of one chunk
FlowIds == {"f1", "f2"}
ChunkSizes == {1, MB + 1, 3 * MB}
TotalSizes == {MB, 2 * MB + 1}
MaxChunks == 2       \* chunks written to one temporary file

\* a request that is no upload (no flowFilename argument)
NoUploadRequest ==
    [tid |-> 1, flowFilename |-> FALSE, flowTotalSize |-> MB,
     flowIdentifier |-> "f1", chunk_size |-> 2 * MB + 1,
     flowChunkNumber |-> 1, flowTotalChunks |-> 2]

UploadRequests ==
    [tid : TIDs,
     flowFilename : {TRUE},
     flowTotalSize : TotalSizes,
     flowIdentifier : FlowIds,
     chunk_size : ChunkSizes,
     flowChunkNumber : {1, 2},
     flowTotalChunks : {2}] \cup {NoUploadRequest}

-----------------------------------------------------------------------------
(***************************************************************************)
(* Initial states and actions                                              *)
(***************************************************************************)
\* downloads: the files and block sizes, the callbacks of one download
MaxSource == 4       \* longest file, in bytes
MaxBlock == 2        \* largest Settings.file_chunk_size, in bytes
MaxCalls == 6        \* callbacks made on one producer

ProducerIdle ==
    /\ fp = Started
    /\ p_source = 0
    /\ p_block = 1
    /\ r_gone = FALSE
    /\ p_calls = 0
    /\ p_faulted = FALSE
    /\ p_stopped = FALSE
    /\ p_completion = FALSE
    /\ p_error_seen = FALSE
    /\ p_late_io = FALSE
    /\ p_late_response = FALSE

\* operations wrapped by decorator_invalidate_tenant_state
MaxOps == 3          \* wrapped operations called one after the other

InvalidateIdle ==
    /\ i_pc = "idle"
    /\ i_result = NoOutcome
    /\ i_delivered = NoOutcome
    /\ i_refreshes = 0
    /\ i_version = 0
    /\ i_log = <<>>

\* requests timed by execution_check
MaxSeconds == 1      \* whole seconds a handler takes, next to the threshold's

\* the whole seconds and the microseconds past them that handlers take
Seconds == 0..MaxSeconds \cup {handler_exec_time_threshold, handler_exec_time_threshold + 1}
Micros == {0, 999, 100000, 149999, 150000, 150001, 999999}

\* values of Settings.side_channels_guard
Guards == {150, 1500}

ExecIdle ==
    /\ e_pc = "checked"
    /\ e_py3 = TRUE
    /\ uniform_answer_time = FALSE
    /\ side_channels_guard = 150
    /\ e_elapsed = 0
    /\ e_delay = 0
    /\ e_alert = FALSE
    /\ e_tracked = TRUE

\* the store the PGP check runs on
MaxReceivers == 2    \* receivers in the store
MaxPeriods == 3      \* the dates are 0..MaxPeriods periods of 15 days after the epoch

Dates == {k * days_15 : k \in 0..MaxPeriods}
Users ==
    [pgp_key_public : BOOLEAN,
     pgp_key_expiration : Dates,
     pgp_key_status : {"enabled", "disabled"}]

PgpIdle ==
    /\ g_pc = "done"
    /\ receivers = [i \in 1..MaxReceivers |-> NoKey]
    /\ allow_unencrypted = FALSE
    /\ g_now = days_15
    /\ g_before = [i \in 1..MaxReceivers |-> NoKey]
    /\ expired_or_expiring = <<>>

RestIdle == ProducerIdle /\ InvalidateIdle /\ ExecIdle /\ PgpIdle

ValidateIdle ==
    /\ v_message = JNone
    /\ v_template = JDict(<<>>)
    /\ v_jmessage = JNone
    /\ v_first = JNone
    /\ v_pc = "idle"
    /\ v_exc = "none"
    /\ v_msg = ""

StateDefault ==
    /\ tenant_cache = DefaultTenantCache
    /\ sessions = DefaultSessions
    /\ api_token_session = NoSession

AuthIdle ==
    /\ request = NoRequest
    /\ check_roles = {"admin"}
    /\ bypass_basic_auth = FALSE
    /\ a_pc = "idle"
    /\ a_exc = "none"
    /\ a_called = FALSE
    /\ a_resolved = FALSE
    /\ current_user = NoSession
    /\ response_headers = {}

UploadIdle ==
    /\ py3 = TRUE
    /\ TempUploadFiles = [id \in FlowIds |-> NoFile]
    /\ upload_args = NoUploadRequest
    /\ uploaded_file = NoUpload
    /\ u_exc = "none"
    /\ u_limit = 0

\* ---- the structural validator ----
InitValidate ==
    /\ \E in \in ValidateInputs :
          /\ v_message = in[1]
          /\ v_template = in[2]
          /\ v_jmessage = in[1]
    /\ v_first = JNone
    /\ v_pc = "ready"
    /\ v_exc = "none"
    /\ v_msg = ""
    /\ StateDefault /\ AuthIdle /\ UploadIdle /\ RestIdle

\* a handler calls validate_message(request body, template)
ValidateMessage ==
    /\ v_pc = "ready"
    /\ LET r == validate_message(v_message, v_template)
       IN  /\ v_exc' = r.exc
           /\ v_msg' = r.msg
           /\ v_jmessage' = r.val
           /\ v_first' = IF r.exc = "none" THEN r.val ELSE v_first
    /\ v_pc' = "done"
    /\ UNCHANGED <<v_message, v_template, stateVars, authVars, uploadVars, restVars>>

\* the handler validates the payload it got back against the same template
Revalidate ==
    /\ v_pc = "done"
    /\ v_exc = "none"
    /\ LET r == validate_message(v_jmessage, v_template)
       IN  /\ v_exc' = r.exc
           /\ v_msg' = r.msg
           /\ v_jmessage' = r.val
    /\ v_pc' = "again"
    /\ UNCHANGED <<v_message, v_template, v_first, stateVars, authVars, uploadVars, restVars>>

NextValidate ==
    \/ ValidateMessage
    \/ Revalidate

SpecValidate == InitValidate /\ [][NextValidate]_vars

\* ---- authentication ----
InitAuth ==
    /\ \E ba \in BOOLEAN, digest \in {<<>>, sha512(GoodToken)} :
          tenant_cache =
              [t \in TIDs |->
                  IF t = 1 THEN TenantConfig(ba, digest, t)
                  ELSE TenantConfig(~ba, sha512(GoodToken), t)]
    /\ sessions = [id \in SessionIds |->
                      IF id = "s1" THEN Session("s1", 1, "admin")
                      ELSE Session("s2", 2, "receiver")]
    /\ api_token_session \in {NoSession, ApiSession}
    /\ AuthIdle /\ ValidateIdle /\ UploadIdle /\ RestIdle

\* BaseHandler.__init__: a handler is constructed for a request; its method
\* is wrapped with decorator_authentication(f, roles)
NewRequest ==
    /\ a_pc = "idle"
    /\ \E req \in Requests, roles \in AllowLists, bypass \in BOOLEAN :
          /\ request' = req
          /\ check_roles' = roles
          /\ bypass_basic_auth' = bypass
    /\ a_pc' = "ready"
    /\ a_exc' = "none"
    /\ a_called' = FALSE
    /\ a_resolved' = FALSE
    /\ current_user' = NoSession
    /\ response_headers' = {}
    /\ UNCHANGED <<stateVars, validateVars, uploadVars, restVars>>

\* the wrapped method is called
Wrapper ==
    /\ a_pc = "ready"
    /\ LET r == wrapper(request, check_roles, bypass_basic_auth)
       IN  /\ a_exc' = r.exc
           /\ a_called' = r.called
           /\ a_resolved' = r.resolved
           /\ current_user' = r.user
           /\ response_headers' = r.headers
    /\ a_pc' = "done"
    /\ UNCHANGED <<request, check_roles, bypass_basic_auth,
                   stateVars, validateVars, uploadVars, restVars>>

\* the request is over
EndRequest ==
    /\ a_pc = "done"
    /\ a_pc' = "idle"
    /\ request' = NoRequest
    /\ check_roles' = {"admin"}
    /\ bypass_basic_auth' = FALSE
    /\ a_exc' = "none"
    /\ a_called' = FALSE
    /\ a_resolved' = FALSE
    /\ current_user' = NoSession
    /\ response_headers' = {}
    /\ UNCHANGED <<stateVars, validateVars, uploadVars, restVars>>

NextAuth ==
    \/ NewRequest
    \/ Wrapper
    \/ EndRequest

SpecAuth == InitAuth /\ [][NextAuth]_vars

\* ---- uploads ----
InitUpload ==
    /\ py3 \in BOOLEAN
    /\ TempUploadFiles = [id \in FlowIds |-> NoFile]
    /\ upload_args = NoUploadRequest
    /\ uploaded_file = NoUpload
    /\ u_exc = "none"
    /\ u_limit = 0
    /\ StateDefault /\ AuthIdle /\ ValidateIdle /\ RestIdle

\* a handler with upload_handler set handles one chunk request
ProcessFileUpload(args) ==
    /\ TempUploadFiles[args.flowIdentifier].chunks < MaxChunks
    /\ LET r == process_file_upload(args)
       IN  /\ TempUploadFiles' = r.files
           /\ uploaded_file' = r.uploaded_file
           /\ u_exc' = r.exc
           /\ u_limit' = r.limit
    /\ upload_args' = args
    /\ UNCHANGED <<py3, stateVars, authVars, validateVars, restVars>>

NextUpload == \E args \in UploadRequests : ProcessFileUpload(args)

SpecUpload == InitUpload /\ [][NextUpload]_vars

\* ---- downloads ----
\* write_file / force_file_download: FileProducer(self.request, fd).start()
InitProducer ==
    /\ fp = Started
    /\ p_source \in 0..MaxSource
    /\ p_block \in 1..MaxBlock
    /\ r_gone = FALSE
    /\ p_calls = 0
    /\ p_faulted = FALSE
    /\ p_stopped = FALSE
    /\ p_completion = FALSE
    /\ p_error_seen = FALSE
    /\ p_late_io = FALSE
    /\ p_late_response = FALSE
    /\ StateDefault /\ AuthIdle /\ ValidateIdle /\ UploadIdle /\ InvalidateIdle
    /\ ExecIdle /\ PgpIdle

\* the calls issued on the response so far
ResponseCalls(st) == <<st.write_calls, st.unregister_calls, st.finish_calls>>

\* what a callback that took fp to st leaves in the history variables
Callback(st, fault) ==
    /\ fp' = st
    /\ p_calls' = p_calls + 1
    /\ p_faulted' = (p_faulted \/ fault # "none")
    /\ p_error_seen' = (p_error_seen \/ fault \in TransportFaults)
    /\ p_late_io' = (p_late_io \/ (p_error_seen /\ (st.pos # fp.pos
                                                   \/ st.write_calls # fp.write_calls)))
    /\ p_late_response' = (p_late_response
                           \/ (fp.resolved > 0 /\ ResponseCalls(st) # ResponseCalls(fp)))
    /\ UNCHANGED <<p_source, p_block, r_gone,
                   validateVars, stateVars, authVars, uploadVars, invalidateVars, execVars, pgpVars>>

\* the client closes the connection
ClientDisconnects ==
    /\ ~r_gone
    /\ r_gone' = TRUE
    /\ UNCHANGED <<fp, p_source, p_block, p_calls, p_faulted, p_stopped,
                   p_completion, p_error_seen, p_late_io, p_late_response,
                   validateVars, stateVars, authVars, uploadVars, invalidateVars, execVars, pgpVars>>

\* the response pulls: it calls resumeProducing
ResumeProducing ==
    /\ p_calls < MaxCalls
    /\ \E fault \in ResumeFaults(fp) :
          /\ Callback(resumeProducing(fp, fault), fault)
          /\ p_completion' = (p_completion
                              \/ (fp.request /\ fault # "read" /\ fd_read(fp.pos) = 0))
    /\ UNCHANGED p_stopped

\* the response asks the producer to stop: it calls stopProducing
StopProducing ==
    /\ p_calls < MaxCalls
    /\ \E fault \in StopFaults(fp) :
          Callback(stopProducing(fp, fault), fault)
    /\ p_completion' = (p_completion \/ fp.request)
    /\ p_stopped' = TRUE

NextProducer ==
    \/ ClientDisconnects
    \/ ResumeProducing
    \/ StopProducing

SpecProducer == InitProducer /\ [][NextProducer]_vars

\* ---- operations that invalidate the tenant state ----
InitInvalidate ==
    /\ InvalidateIdle
    /\ StateDefault /\ AuthIdle /\ ValidateIdle /\ UploadIdle /\ ProducerIdle
    /\ ExecIdle /\ PgpIdle

\* the Deferred of the wrapper fires with outcome, the result of f
Fired(outcome) ==
    /\ i_result' = outcome
    /\ i_delivered' = fire(outcome).result
    /\ i_refreshes' = i_refreshes + fire(outcome).refreshes
    /\ i_version' = i_version + fire(outcome).refreshes
    /\ i_log' = Append(i_log, fire(outcome).result)
    /\ i_pc' = "done"
    /\ UNCHANGED <<validateVars, stateVars, authVars, uploadVars, producerVars, execVars, pgpVars>>

\* the wrapper is called and f returns a value or raises:
\* defer.maybeDeferred(f, ...) is a fired Deferred
CallSynchronous ==
    /\ i_pc = "idle"
    /\ Len(i_log) < MaxOps
    /\ \E outcome \in Outcomes : Fired(outcome)

\* the wrapper is called and f returns a Deferred that has not fired
CallDeferred ==
    /\ i_pc = "idle"
    /\ Len(i_log) < MaxOps
    /\ i_pc' = "pending"
    /\ UNCHANGED <<i_result, i_delivered, i_refreshes, i_version, i_log,
                   validateVars, stateVars, authVars, uploadVars, producerVars, execVars, pgpVars>>

\* the Deferred f returned fires
DeferredFires ==
    /\ i_pc = "pending"
    /\ \E outcome \in Outcomes : Fired(outcome)

\* the caller has its result; the next operation can be called
NextOperation ==
    /\ i_pc = "done"
    /\ i_pc' = "idle"
    /\ i_result' = NoOutcome
    /\ i_delivered' = NoOutcome
    /\ i_refreshes' = 0
    /\ UNCHANGED <<i_version, i_log,
                   validateVars, stateVars, authVars, uploadVars, producerVars, execVars, pgpVars>>

NextInvalidate ==
    \/ CallSynchronous
    \/ CallDeferred
    \/ DeferredFires
    \/ NextOperation

SpecInvalidate == InitInvalidate /\ [][NextInvalidate]_vars

\* ---- the end of a request ----
\* a request is dispatched to a handler, which takes e_elapsed to run
Dispatched ==
    /\ e_pc' = "running"
    /\ e_py3' \in BOOLEAN
    /\ uniform_answer_time' \in BOOLEAN
    /\ side_channels_guard' \in Guards
    /\ e_elapsed' \in {sec * 1000000 + us : sec \in Seconds, us \in Micros}
    /\ e_delay' = 0
    /\ e_alert' = FALSE
    /\ e_tracked' = FALSE

InitExec ==
    /\ ExecIdle /\ PgpIdle
    /\ StateDefault /\ AuthIdle /\ ValidateIdle /\ UploadIdle /\ ProducerIdle
    /\ InvalidateIdle

Dispatch ==
    /\ e_pc = "checked"
    /\ Dispatched
    /\ UNCHANGED <<validateVars, stateVars, authVars, uploadVars, producerVars,
                   invalidateVars, pgpVars>>

\* the handler is done: execution_check()
ExecutionCheck ==
    /\ e_pc = "running"
    /\ LET r == execution_check(uniform_answer_time, side_channels_guard,
                                e_elapsed, e_py3)
       IN  /\ e_delay' = r.delay
           /\ e_alert' = r.alert
           /\ e_tracked' = r.tracked
    /\ e_pc' = "checked"
    /\ UNCHANGED <<e_py3, uniform_answer_time, side_channels_guard, e_elapsed,
                   validateVars, stateVars, authVars, uploadVars, producerVars,
                   invalidateVars, pgpVars>>

NextExec ==
    \/ Dispatch
    \/ ExecutionCheck

SpecExec == InitExec /\ [][NextExec]_vars

\* ---- the PGP check job ----
InitPgp ==
    /\ PgpIdle
    /\ StateDefault /\ AuthIdle /\ ValidateIdle /\ UploadIdle /\ ProducerIdle
    /\ InvalidateIdle /\ ExecIdle

\* between two runs of the job a receiver's user is edited
UserChanges ==
    /\ \E i \in 1..MaxReceivers, user \in Users :
          receivers' = [receivers EXCEPT ![i] = user]
    /\ g_before' = receivers'
    /\ expired_or_expiring' = <<>>
    /\ g_pc' = "ready"
    /\ UNCHANGED <<allow_unencrypted, g_now,
                   validateVars, stateVars, authVars, uploadVars, producerVars,
                   invalidateVars, execVars>>

\* the node's setting is changed
SettingChanges ==
    /\ allow_unencrypted' = ~allow_unencrypted
    /\ g_before' = receivers
    /\ expired_or_expiring' = <<>>
    /\ g_pc' = "ready"
    /\ UNCHANGED <<receivers, g_now,
                   validateVars, stateVars, authVars, uploadVars, producerVars,
                   invalidateVars, execVars>>

\* time passes
TimePasses ==
    /\ g_now < MaxPeriods * days_15
    /\ g_now' = g_now + days_15
    /\ g_before' = receivers
    /\ expired_or_expiring' = <<>>
    /\ g_pc' = "ready"
    /\ UNCHANGED <<receivers, allow_unencrypted,
                   validateVars, stateVars, authVars, uploadVars, producerVars,
                   invalidateVars, execVars>>

\* operation(): "expired_or_expiring = yield self.pgp_validation_check()"
PgpValidationCheck ==
    /\ g_pc = "ready"
    /\ LET r == pgp_validation_check(receivers, g_now, allow_unencrypted)
       IN  /\ receivers' = r.receivers
           /\ expired_or_expiring' = r.expired_or_expiring
    /\ g_before' = receivers
    /\ g_pc' = "done"
    /\ UNCHANGED <<allow_unencrypted, g_now,
                   validateVars, stateVars, authVars, uploadVars, producerVars,
                   invalidateVars, execVars>>

NextPgp ==
    \/ UserChanges
    \/ SettingChanges
    \/ TimePasses
    \/ PgpValidationCheck

SpecPgp == InitPgp /\ [][NextPgp]_vars

-----------------------------------------------------------------------------
(***************************************************************************)
(* Properties of the structural validator                                  *)
(***************************************************************************)
KeySet(items) == {items[i].k : i \in 1..Len(items)}

\* value has exactly the keys of template, at every nested mapping level and
\* in each element of a list of mappings
RECURSIVE KeysMatch(_, _)
KeysMatch(value, template) ==
    CASE template.t = "dict" ->
            /\ value.t = "dict"
            /\ KeySet(value.c) = KeySet(template.c)
            /\ \A j \in 1..Len(template.c) :
                  KeysMatch(Lookup(value.c, template.c[j].k), template.c[j].val)
      [] template.t = "list" /\ Len(template.c) > 0 /\ value.t = "list" ->
            \A j \in 1..Len(value.c) : KeysMatch(value.c[j].val, template.c[1].val)
      [] OTHER -> TRUE

\* C1: for every mapping template T and every decoded payload P,
\* validate_message either raises InputValidationError or succeeds leaving a
\* payload whose key set equals T's key set, at every nested mapping level and
\* in each element of a list-of-mappings template.
C1_ErrorOrExactKeys ==
    (v_pc = "done" /\ v_template.t = "dict" /\ v_message.t # "malformed") =>
        \/ v_exc = IVE
        \/ v_exc = "none" /\ KeysMatch(v_jmessage, v_template)

\* the part of C1 that the code does keep: a validation that returns leaves
\* exactly the template's keys
ReturnedKeysMatch ==
    (v_pc = "done" /\ v_exc = "none") => KeysMatch(v_jmessage, v_template)

\* the fields of the request body whose template is the boolean type
BoolFields ==
    IF v_template.t = "dict" /\ v_message.t = "dict"
    THEN {k \in KeySet(v_template.c) \cap KeySet(v_message.c) :
              Lookup(v_template.c, k) = TType("bool")}
    ELSE {}

IsBoolString(value) == value.t = "str" /\ (value.s = STrue \/ value.s = SFalse)

-----------------------------------------------------------------------------
(***************************************************************************)
(* Properties of uploads                                                   *)
(***************************************************************************)
\* the configured maximum upload size of tenant tid, in bytes
MaxBytes(tid) == tenant_cache[tid].maximum_filesize * MB

\* C2: in every reachable state of the registry, after any sequence of
\* process_file_upload calls, the bytes accumulated in a flow's temporary
\* object never exceed the configured maximum upload size of the tenant whose
\* requests wrote them (of the most generous one, had several written).
C2_AccumulatedWithinMaximum ==
    \A id \in FlowIds :
        TempUploadFiles[id].size > 0 =>
            \E tid \in TempUploadFiles[id].tids :
                TempUploadFiles[id].size <= MaxBytes(tid)

\* the last request was an upload request (it carried flowFilename)
Uploaded == upload_args.flowFilename

-----------------------------------------------------------------------------
(***************************************************************************)
(* Properties of identity resolution and of the authentication wrapper     *)
(***************************************************************************)
\* the wrapper has run for the current request
WrapperDone == a_pc = "done"

\* the session the x-session header of the request names, if it names one
NamedSession ==
    IF request.x_session.present /\ request.x_session.utf8
    THEN SessionsGet(request.x_session.value) ELSE NoSession

\* C4: for every request of tenant A whose x-session header names a session
\* registered with a tenant id B # A the session-header channel yields no
\* identity, and any session the session-header channel returns has the
\* tenant id of the request (and so has the identity the wrapper resolved
\* when the API-token channel gave none).
C4_SessionTenantIsolation ==
    a_pc # "idle" =>
        LET r == session_header_channel(request)
        IN  /\ (NamedSession # NoSession /\ NamedSession.tid # request.tid) =>
                   (r.exc = "none" /\ r.user = NoSession)
            /\ r.user # NoSession => r.user.tid = request.tid
            /\ (WrapperDone /\ a_resolved /\ get_api_session(request) = NoSession) =>
                   (current_user = r.user
                    /\ (current_user # NoSession => current_user.tid = request.tid))

\* a request of tenant 1 named the session of tenant 2 and resolved no identity
C4_Witness ==
    /\ WrapperDone
    /\ a_resolved
    /\ NamedSession # NoSession
    /\ NamedSession.tid # request.tid
    /\ get_api_session(request) = NoSession
    /\ current_user = NoSession
    /\ a_exc = "NotAuthenticated"

\* the basic-auth gate applies to the request
GateApplies == tenant_cache[request.tid].basic_auth /\ ~bypass_basic_auth

\* the authorization header of the request carries scheme Basic and the
\* username and password of the tenant
ValidCredentials ==
    /\ request.authorization.present
    /\ Len(request.authorization.tokens) = 2
    /\ request.authorization.tokens[1].raw = "Basic"
    /\ request.authorization.tokens[2].b64
    /\ request.authorization.tokens[2].utf8
    /\ request.authorization.tokens[2].text =
          tenant_cache[request.tid].basic_auth_username \o <<":">> \o
          tenant_cache[request.tid].basic_auth_password

GatePassed == GateApplies => ValidCredentials

\* C5 (as stated): when '*' is in the allow-list the wrapper never raises,
\* whatever the identity: the wrapped handler is invoked.
C5_StarNeverRaises ==
    (WrapperDone /\ "*" \in check_roles) => (a_exc = "none" /\ a_called)

\* C5 (amended): when '*' is in the allow-list and the basic-auth gate does
\* not apply or is passed, the wrapper never raises, whatever the identity
\* (none, one of any role, an x-session header that cannot be decoded): the
\* wrapped handler is invoked; when the gate applies and is not passed the
\* wrapper raises and the handler is not invoked.
C5_StarAfterGate ==
    (WrapperDone /\ "*" \in check_roles) =>
        /\ GatePassed => (a_exc = "none" /\ a_called)
        /\ ~GatePassed => (a_exc # "none" /\ ~a_called)

\* '*' let a request with an identity through the gate of a tenant with
\* basic auth
C5_Witness ==
    /\ WrapperDone
    /\ "*" \in check_roles
    /\ GateApplies
    /\ ValidCredentials
    /\ get_current_user(request).user # NoSession
    /\ a_called
    /\ a_exc = "none"

\* the allow-list holds neither '*' nor 'unauthenticated'
RolesOnly == "*" \notin check_roles /\ "unauthenticated" \notin check_roles

\* the identity of the request: what self.current_user gives for it
Identity == get_current_user(request)

\* C6 (as stated): for an allow-list containing neither '*' nor
\* 'unauthenticated' the handler is invoked if and only if an identity
\* resolved and its role is in the allow-list; with no identity the wrapper
\* raises NotAuthenticated, with an identity whose role is not in the
\* allow-list it raises InvalidAuthentication, and in both failing cases the
\* handler is not run.
C6_RoleDecision ==
    (WrapperDone /\ RolesOnly) =>
        /\ a_called <=> (Identity.user # NoSession
                         /\ Identity.user.user_role \in check_roles)
        /\ Identity.user = NoSession =>
              (a_exc = "NotAuthenticated" /\ ~a_called)
        /\ (Identity.user # NoSession /\ Identity.user.user_role \notin check_roles) =>
              (a_exc = "InvalidAuthentication" /\ ~a_called)

\* C6 (amended): for an allow-list containing neither '*' nor
\* 'unauthenticated', once the basic-auth gate does not apply or is passed:
\* the handler is invoked if and only if an identity resolved and its role is
\* in the allow-list; when the resolution gives no identity the wrapper raises
\* NotAuthenticated, with an identity whose role is not in the allow-list it
\* raises InvalidAuthentication, when the resolution itself raises (an
\* x-session header that is not UTF-8) that exception leaves the wrapper, and
\* in all failing cases the handler is not run.  When the gate applies and is
\* not passed the wrapper raises before any identity is resolved.
C6_RoleDecisionAfterGate ==
    (WrapperDone /\ RolesOnly) =>
        /\ GatePassed =>
              /\ a_called <=> (Identity.exc = "none"
                               /\ Identity.user # NoSession
                               /\ Identity.user.user_role \in check_roles)
              /\ (Identity.exc = "none" /\ Identity.user = NoSession) =>
                    (a_exc = "NotAuthenticated" /\ ~a_called /\ a_resolved)
              /\ (Identity.user # NoSession
                  /\ Identity.user.user_role \notin check_roles) =>
                    (a_exc = "InvalidAuthentication" /\ ~a_called
                     /\ current_user = Identity.user)
              /\ Identity.exc # "none" => (a_exc = Identity.exc /\ ~a_called)
        /\ ~GatePassed => (a_exc # "none" /\ ~a_called /\ ~a_resolved)

\* a receiver asked for an admin handler behind a passed basic-auth gate
C6_Witness ==
    /\ WrapperDone
    /\ RolesOnly
    /\ GateApplies
    /\ ValidCredentials
    /\ current_user # NoSession
    /\ current_user.user_role \notin check_roles
    /\ a_exc = "InvalidAuthentication"
    /\ ~a_called

\* C7: for an allow-list containing 'unauthenticated' (and not '*') the
\* handler is invoked only when no identity resolved; whenever an identity
\* resolved, whatever its role and even if the role is in the allow-list, the
\* wrapper fails with an authentication error and the handler is not run.
C7_UnauthenticatedOnly ==
    (WrapperDone /\ "unauthenticated" \in check_roles /\ "*" \notin check_roles) =>
        /\ a_called => (Identity.exc = "none" /\ Identity.user = NoSession
                        /\ a_resolved /\ current_user = NoSession)
        /\ Identity.user # NoSession => ~a_called
        /\ (a_resolved /\ current_user # NoSession) =>
              (a_exc = "InvalidAuthentication" /\ ~a_called)
        /\ (GatePassed /\ Identity.exc = "none") =>
              (a_resolved /\ current_user = Identity.user)

\* an admin asked for a handler that lists 'unauthenticated' and 'admin'
C7_Witness ==
    /\ WrapperDone
    /\ check_roles = {"unauthenticated", "admin"}
    /\ a_resolved
    /\ current_user # NoSession
    /\ current_user.user_role = "admin"
    /\ a_exc = "InvalidAuthentication"
    /\ ~a_called

\* C8: when the tenant has basic auth enabled and the handler does not bypass
\* it, the gate runs before any role decision ('*' included) and the handler
\* is reached only if the authorization header carries scheme Basic with the
\* tenant's username and password; on any mismatch or absence (no header,
\* wrong scheme, username or password, undecodable or malformed credential)
\* the request fails with HTTPAuthenticationRequired and the
\* WWW-Authenticate header is set on the response.
C8_BasicAuthChallenge ==
    (WrapperDone /\ GateApplies) =>
        /\ a_called => ValidCredentials
        /\ ~ValidCredentials =>
              /\ a_exc = "HTTPAuthenticationRequired"
              /\ WWWAuthenticate \in response_headers
              /\ ~a_called
              /\ ~a_resolved

\* the token the request supplies has the digest the tenant stores
TokenMatches ==
    sha512(SuppliedToken(request)) = tenant_cache[request.tid].admin_api_token_digest

\* C9: the API-token channel returns the singleton API session if and only if
\* the request's tenant is tenant 1, the supplied token has exactly the
\* expected length, a node-level API session exists, the tenant has a
\* non-empty admin API-token digest and the digest of the supplied token
\* equals the stored one; in every other case it yields no identity (it never
\* raises), a wrong token as an absent one.
C9_ApiTokenChannel ==
    a_pc # "idle" =>
        LET all == /\ request.tid = 1
                   /\ Len(SuppliedToken(request)) = api_token_len
                   /\ api_token_session # NoSession
                   /\ tenant_cache[request.tid].admin_api_token_digest # <<>>
                   /\ TokenMatches
        IN  /\ all => get_api_session(request) = api_token_session
            /\ ~all => get_api_session(request) = NoSession
            /\ get_api_session(request) \in {NoSession, ApiSession}
            /\ (WrapperDone /\ a_resolved /\ all) => current_user = ApiSession
            /\ (WrapperDone /\ a_resolved /\ current_user = ApiSession) => all

\* the API token resolved the API session where the x-session header named
\* none
C9_Witness ==
    /\ WrapperDone
    /\ a_resolved
    /\ current_user = ApiSession
    /\ request.tid = 1
    /\ SuppliedToken(request) = GoodToken
    /\ NamedSession = NoSession
    /\ a_called

\* the identity the two channels give in their order: the API session if the
\* API-token channel yields it, else the session the x-session header names
\* if it is one of the request's tenant, else none
FirstMatch ==
    IF get_api_session(request) # NoSession THEN get_api_session(request)
    ELSE IF NamedSession # NoSession /\ NamedSession.tid = request.tid
    THEN NamedSession
    ELSE NoSession

\* C20: identity resolution is first-match-wins in the order API-token
\* channel, session-header channel: the API session is the identity whatever
\* x-session header is present, else the session-header channel alone decides,
\* and when neither yields an identity the identity is empty; no error is
\* raised by the resolution.
C20_FirstMatchWins ==
    a_pc # "idle" =>
        /\ get_current_user(request).user = FirstMatch
        /\ get_current_user(request).exc = "none"
        /\ (WrapperDone /\ a_resolved) =>
               (current_user = FirstMatch /\ a_exc # "UnicodeDecodeError")

-----------------------------------------------------------------------------
(***************************************************************************)
(* Further properties of the structural validator                          *)
(***************************************************************************)
\* the template keys for which the request body carries None
NoneFields ==
    IF v_template.t = "dict" /\ v_message.t = "dict"
    THEN {k \in KeySet(v_template.c) \cap KeySet(v_message.c) :
              Lookup(v_message.c, k) = JNone}
    ELSE {}

C12_Idempotent ==
    v_pc = "again" => (v_exc = "none" /\ v_jmessage = v_first)

\* a body that lost keys at the top and in a nested mapping was validated
\* twice
C12_Witness ==
    /\ v_pc = "again"
    /\ v_exc = "none"
    /\ v_message.t = "dict"
    /\ v_first # v_message
    /\ Len(v_first.c) < Len(v_message.c)
    /\ \E j \in 1..Len(v_first.c) :
          /\ v_first.c[j].val.t = "dict"
          /\ v_first.c[j].val # Lookup(v_message.c, v_first.c[j].k)

\* the mapping payloads validated against mapping templates in the call of
\* validate_message: the body against the template, and the value of a key
\* against the template nested at the key
MappingPairs ==
    IF v_message.t = "dict" /\ v_template.t = "dict"
    THEN {<<v_message, v_template>>} \cup
         {<<Lookup(v_message.c, k), Lookup(v_template.c, k)>> :
             k \in {h \in KeySet(v_template.c) :
                       /\ HasKey(v_message.c, h)
                       /\ Lookup(v_template.c, h).t = "dict"
                       /\ Lookup(v_message.c, h).t = "dict"}}
    ELSE {}

\* C21: the double check of the success counter is no validation path: for
\* every mapping template T and mapping payload P validate_jmessage never
\* raises "Success counter double check failure", and whenever control
\* reaches the check the counter is twice the number of keys of T.
C21_DoubleCheckNeverFails ==
    v_pc # "ready" =>
        /\ v_msg # "Success counter double check failure"
        /\ \A pair \in MappingPairs :
              /\ validate_jmessage(pair[1], pair[2]).msg #
                     "Success counter double check failure"
              /\ success_check(pair[1], pair[2]) \in
                     {0 - 1, 2 * Len(pair[2].c)}

\* control reached the check with a counter above zero, at the top for a body
\* that lost a key and in a nested mapping
C21_Witness ==
    /\ v_pc = "done"
    /\ v_exc = "none"
    /\ Len(v_message.c) > Len(v_template.c)
    /\ success_check(v_message, v_template) = 2 * Len(v_template.c)
    /\ \E pair \in MappingPairs :
          /\ pair # <<v_message, v_template>>
          /\ Len(pair[2].c) > 0
          /\ success_check(pair[1], pair[2]) = 2 * Len(pair[2].c)

-----------------------------------------------------------------------------
(***************************************************************************)
(* Properties of the FileProducer                                          *)
(***************************************************************************)
\* C13: over any sequence of resumeProducing and stopProducing calls on a
\* started FileProducer, completion (source exhausted or stop requested)
\* unregisters the producer, finishes the response and resolves the
\* completion deferred exactly once: once completion is reached the deferred
\* is resolved, it is never resolved a second time, and after it is resolved
\* no further write, unregisterProducer or finish is issued on the response.
C13_CompletionExactlyOnce ==
    /\ fp.resolved <= 1
    /\ ~p_late_response
    /\ p_completion =>
          /\ fp.resolved = 1
          /\ ~fp.registered /\ fp.unregister_calls = 1
          /\ fp.finished /\ fp.finish_calls = 1

\* the part of C13 the code keeps whatever the response does: the deferred
\* is resolved at most once, only after the response was unregistered and
\* finished, and the response is not called again afterwards
ResolvedAtMostOnce ==
    /\ fp.resolved <= 1
    /\ ~p_late_response
    /\ fp.resolved = 1 => (~fp.request /\ ~fp.registered /\ fp.finished)

\* ceil(p_source / p_block)
BlockCount == (p_source + p_block - 1) \div p_block

\* the blocks written are consecutive blocks of the file from its start
RECURSIVE InSourceOrder(_, _)
InSourceOrder(writes, offset) ==
    IF writes = <<>> THEN TRUE
    ELSE /\ Head(writes)[1] = offset
         /\ Head(writes)[2] > 0
         /\ Head(writes)[2] <= p_block
         /\ InSourceOrder(Tail(writes), offset + Head(writes)[2])

\* the bytes written
RECURSIVE Written(_)
Written(writes) ==
    IF writes = <<>> THEN 0 ELSE Head(writes)[2] + Written(Tail(writes))

\* C14: for a source of N bytes and a block size B, a FileProducer driven by
\* an error-free response that keeps pulling until completion issues exactly
\* ceil(N/B) write calls, in source order and with their concatenation equal
\* to the source, and then exactly one completion signal.
C14_BlocksThenCompletion ==
    (~p_faulted /\ ~p_stopped) =>
        /\ InSourceOrder(fp.writes, 0)
        /\ fp.write_calls = Len(fp.writes)
        /\ fp.write_calls <= BlockCount
        /\ fp.resolved = 1 <=> p_calls > BlockCount
        /\ fp.resolved = 1 =>
              /\ fp.write_calls = BlockCount
              /\ Written(fp.writes) = p_source
        /\ fp.resolved <= 1

\* a file that ends in a partial block was streamed to its end, and pulled
\* once more
C14_Witness ==
    /\ ~p_faulted /\ ~p_stopped
    /\ p_source = 3 /\ p_block = 2
    /\ fp.writes = <<<<0, 2>>, <<2, 1>>>>
    /\ fp.resolved = 1
    /\ p_calls > BlockCount + 1

\* C15: no producer callback propagates a transport-level error: whenever
\* the response's write, unregisterProducer or finish, or the read of the
\* source, raises during resumeProducing or stopProducing, the callback
\* returns normally to its caller, in every state of the producer.
C15_CallbacksReturn ==
    p_calls > 0 => fp.ret = "returned"

\* finish() raised in a callback, which returned
C15_Witness ==
    /\ p_error_seen
    /\ fp.finish_calls > 0
    /\ ~fp.finished
    /\ fp.ret = "returned"

\* C16: after a client disconnect is observed as a transport error during
\* streaming the producer tears down: on no later pull does it read another
\* block from the source or issue another write to the response.
C16_TeardownAfterError ==
    ~p_late_io

\* C18: the temporary object of a flow is finalized exactly when a chunk
\* whose chunk number equals its total chunk count is handled for it, and once
\* it is finalized no later chunk for the same flow identifier appends bytes
\* to it (it stays finalized, with the bytes and chunks it had), in whatever
\* order the chunks arrive, the last-numbered one first and repeated ones
\* included.  (Every step is process_file_upload on the request upload_args';
\* a chunk is handled when the call returns without an exception.)
C18_FinalizedByLastChunk ==
    [][ \A id \in FlowIds :
          LET f == TempUploadFiles[id]
              g == TempUploadFiles'[id]
              args == upload_args'
              handled == /\ args.flowFilename
                         /\ args.flowIdentifier = id
                         /\ u_exc' = "none"
          IN  /\ ~f.finalized =>
                    (g.finalized <=>
                        (handled /\ args.flowChunkNumber = args.flowTotalChunks))
              /\ f.finalized =>
                    (g.finalized /\ g.size = f.size /\ g.chunks = f.chunks) ]_vars

\* the last-numbered chunk came first and finalized the object; a
\* lower-numbered chunk for the same flow then left it as it was
C18_Witness ==
    /\ Uploaded
    /\ upload_args.flowChunkNumber < upload_args.flowTotalChunks
    /\ u_exc = "WriteAfterFinalize"
    /\ TempUploadFiles[upload_args.flowIdentifier].finalized
    /\ TempUploadFiles[upload_args.flowIdentifier].chunks = 1
    /\ TempUploadFiles[upload_args.flowIdentifier].size = 1

\* C23: upload flows are isolated between tenants and flow identifiers:
\* whatever the interleaving of process_file_upload calls, the chunks appended
\* to one temporary object carry one flow identifier and belong to one tenant;
\* a chunk submitted under tenant A never lands in a temporary object created
\* by a request of tenant B.  (tids are the tenants whose requests wrote to
\* the object, the one that created it included.)
C23_FlowsIsolated ==
    \A id \in FlowIds : Cardinality(TempUploadFiles[id].tids) <= 1

-----------------------------------------------------------------------------
(***************************************************************************)
(* Properties of decorator_invalidate_tenant_state                         *)
(***************************************************************************)
\* the operations of the log that succeeded
Successes == {j \in 1..Len(i_log) : i_log[j].ok}

\* C17: for an operation wrapped by decorator_invalidate_tenant_state the
\* refresh of the tenant state is triggered exactly once if the operation
\* completes successfully and never if it fails; the refresh happens after
\* the result of the operation is computed (never while it is pending), and
\* the caller receives exactly the operation's own result, or its failure,
\* unchanged.
C17_RefreshOnSuccessOnly ==
    /\ i_pc = "done" =>
          /\ i_result.fired
          /\ i_refreshes = (IF i_result.ok THEN 1 ELSE 0)
          /\ i_delivered = i_result
    /\ i_pc # "done" => (i_refreshes = 0 /\ ~i_delivered.fired)
    /\ i_refreshes > 0 => i_result.fired
    /\ i_version = Cardinality(Successes)

\* an operation that returned a Deferred succeeded after one that failed
C17_Witness ==
    /\ i_pc = "done"
    /\ Len(i_log) = 2
    /\ ~i_log[1].ok
    /\ i_result = Success("data2")
    /\ i_delivered = Success("data2")
    /\ i_refreshes = 1
    /\ i_version = 1

-----------------------------------------------------------------------------
(***************************************************************************)
(* Properties of execution_check                                           *)
(***************************************************************************)
\* a request whose execution_check has run
Checked == e_pc = "checked" /\ e_tracked /\ e_elapsed > 0

\* C19: for a handler flagged uniform_answer_time execution_check suspends
\* completion if and only if the time elapsed since dispatch is under
\* Settings.side_channels_guard, and the delay is the remaining delta (the
\* target minus the elapsed time), so that the latency is at least the target
\* whatever the elapsed time; an unflagged handler is never delayed.
C19_DelayIsRemainingDelta ==
    Checked =>
        IF uniform_answer_time
        THEN /\ e_delay > 0 <=> e_elapsed < side_channels_guard * 1000
             /\ e_delay > 0 => e_delay = side_channels_guard * 1000 - e_elapsed
             /\ e_elapsed + e_delay >= side_channels_guard * 1000
        ELSE e_delay = 0

-----------------------------------------------------------------------------
(***************************************************************************)
(* Properties of pgp_validation_check                                      *)
(***************************************************************************)
\* the receiver had a public key with an expiration date that has passed
KeyExpired(user) ==
    /\ user.pgp_key_public
    /\ user.pgp_key_expiration # datetime_null
    /\ user.pgp_key_expiration < g_now

\* C22: after a run of pgp_validation_check the PGP key status of a receiver
\* is 'disabled' by the run if and only if the receiver has a public key, an
\* expiration date that is not null and has passed, and the node accepts
\* unencrypted mail and files; the key status of every other receiver, and of
\* every receiver when allow_unencrypted is off, is as it was, and so are the
\* key and its expiration date of every receiver.
C22_DowngradeExpiredOnly ==
    g_pc = "done" =>
        \A i \in 1..MaxReceivers :
            /\ (KeyExpired(g_before[i]) /\ allow_unencrypted) =>
                   receivers[i].pgp_key_status = "disabled"
            /\ ~(KeyExpired(g_before[i]) /\ allow_unencrypted) =>
                   receivers[i].pgp_key_status = g_before[i].pgp_key_status
            /\ receivers[i].pgp_key_public = g_before[i].pgp_key_public
            /\ receivers[i].pgp_key_expiration = g_before[i].pgp_key_expiration

\* a run disabled the expired key of one receiver and left enabled a key that
\* expires later and a key without expiration
C22_Witness ==
    /\ g_pc = "done"
    /\ allow_unencrypted
    /\ \E i, j \in 1..MaxReceivers :
          /\ KeyExpired(g_before[i])
          /\ g_before[i].pgp_key_status = "enabled"
          /\ receivers[i].pgp_key_status = "disabled"
          /\ g_before[j].pgp_key_public
          /\ ~KeyExpired(g_before[j])
          /\ receivers[j].pgp_key_status = "enabled"

=============================================================================
